---------------------------- MODULE Spec2Model ----------------------------
(***************************************************************************)
(* surface_creator.py: surface_generator(thickness, width, depth,          *)
(* rhombohedral_miller, padding).  One invocation is modelled statement by *)
(* statement; pc names the statement about to run.                         *)
(*                                                                         *)
(* Lengths are integers counting half Angstroms (5.0 A = 10), so that the  *)
(* quotients width / a are exact rationals and round() can be computed.    *)
(* The pymatgen calls are modelled by what the script relies on:           *)
(*   SlabGenerator(...).get_slabs()  returns any list of slabs,            *)
(*   Structure.make_supercell        changes the slab in place,            *)
(*   Slab.get_orthogonal_c_slab      returns a new slab, receiver as is,   *)
(*   Structure.to                    writes the receiver to a file.        *)
(***************************************************************************)
EXTENDS Integers, Sequences, FiniteSets, TLC

VARIABLES
    pc,                  \* statement about to run, or "done" / "failed"
    thickness, width, depth, rhombohedral_miller, padding,   \* parameters
    fe2o3,               \* the unit cell read from Fe2O3_orth.cif
    mil,                 \* local mil; Unset while unbound
    slabgen,             \* arguments the SlabGenerator was built with
    slabs,               \* the list get_slabs() returned (mutated in place)
    native,              \* history: the list exactly as the engine returned it
    mult,                \* <<mult>>; Unset while both are unbound
    i,                   \* loop index of the for statement (zero based)
    ret,                 \* value of the last expression statement (dropped)
    disk,                \* files written: set of [name, content]
    error,               \* exception that ended the invocation, or "none"
    log                  \* history: calls made so far, in order

vars == <<pc, thickness, width, depth, rhombohedral_miller, padding, fe2o3,
          mil, slabgen, slabs, native, mult, i, ret, disk, error,
          log>>

----------------------------------------------------------------------------
(* Bounds of the model *)

MaxSlabs == 2            \* get_slabs() returns at most this many candidates
MaxIndex == 2            \* Miller components range over -MaxIndex..MaxIndex

RequestedLengths == {4, 15, 42}     \* 2.0, 7.5 and 21.0 A
NativeLengths == {8, 10}            \* 4.0 and 5.0 A
Tilts == {0, 1}                     \* in-plane component of the c vector
Thicknesses == {20}                 \* 10.0 A
Paddings == {2}                     \* 1.0 A, the default

Unset == <<>>         \* an unbound local
None == "none"

MillerIndices ==
    {<<h, k, l>> : h \in -MaxIndex..MaxIndex, k \in -MaxIndex..MaxIndex,
                   l \in -MaxIndex..MaxIndex}

SlabShapes == [a : NativeLengths, b : NativeLengths, tilt : Tilts,
               reps_a : {1}, reps_b : {1}]

RECURSIVE SeqsUpTo(_, _)
SeqsUpTo(S, n) ==
    IF n = 0 THEN {<<>>}
    ELSE LET shorter == SeqsUpTo(S, n - 1)
         IN  shorter \cup {Append(q, x) : q \in {r \in shorter : Len(r) = n - 1},
                                          x \in S}

----------------------------------------------------------------------------
(* Miller index translation, lines 64-76 *)

plane_100 == << <<1,0,0>>, <<0,1,0>>, <<1,-1,0>>,
                <<-1,0,0>>, <<0,-1,0>>, <<-1,1,0>> >>
plane_001 == << <<0,0,1>>, <<0,0,-1>> >>
plane_110 == << <<1,1,0>>, <<1,-2,0>>, <<2,-1,0>>,
                <<-1,-1,0>>, <<-1,2,0>>, <<-2,1,0>> >>
plane_012 == << <<0,1,2>>, <<1,-1,2>>, <<-1,-1,2>>,
                <<0,-2,-2>>, <<-1,1,-2>>, <<1,1,-2>> >>

\* Python's  x in list
In(x, list) == \E n \in DOMAIN list : list[n] = x

TranslateSwapped(m) ==
    IF In(m, plane_100) THEN <<1,0,0>>
    ELSE IF In(m, plane_001) THEN <<0,0,1>>
    ELSE IF In(m, plane_110) THEN <<1,1,0>>
    ELSE IF In(m, plane_012) THEN <<0,2,2>>
    ELSE Unset

\* the if / elif chain; no else branch, so mil stays unbound
Translate(m) ==
    IF In(m, plane_100) THEN <<1,1,0>>
    ELSE IF In(m, plane_001) THEN <<0,0,1>>
    ELSE IF In(m, plane_110) THEN <<1,0,0>>
    ELSE IF In(m, plane_012) THEN <<0,2,2>>
    ELSE Unset

----------------------------------------------------------------------------
(* Multipliers, lines 90-91: int(round(x / y, 0)) for positive x, y.       *)
(* Python 3 round() rounds to nearest, an exact half to the even integer.  *)

RoundTruncating(x, y) == x \div y

Round(x, y) ==
    LET q == x \div y
        r == x % y
    IN  IF 2 * r < y THEN q
        ELSE IF 2 * r > y THEN q + 1
        ELSE IF q % 2 = 0 THEN q ELSE q + 1

----------------------------------------------------------------------------
(* The slab operations, lines 94-96 *)

\* s.make_supercell([ma, mb, 1]): a and b replicated, c kept
MakeSupercell(s, ma, mb) ==
    [s EXCEPT !.a = @ * ma, !.b = @ * mb,
              !.reps_a = @ * ma, !.reps_b = @ * mb]

\* s.get_orthogonal_c_slab(): a new slab whose c is normal to a and b
GetOrthogonalCSlab(s) == [s EXCEPT !.tilt = 0]

FileNameTranslated(m, t, n) == <<"slab_", t, "_", n, ".cif">>

\* f'slab_{rhombohedral_miller}_{i}.cif'; t is the local mil, not used
FileName(m, t, n) == <<"slab_", m, "_", n, ".cif">>

\* s.to(filename=...): the file is created or overwritten
WriteFile(d, name, content) ==
    {f \in d : f.name # name} \cup {[name |-> name, content |-> content]}

ScaleEvery(ss, n, ma, mb) ==
    [j \in DOMAIN ss |-> MakeSupercell(ss[j], ma, mb)]

\* the loop body's first statement acts on the loop variable s = slabs[n]
ScaleAt(ss, n, ma, mb) ==
    [ss EXCEPT ![n] = MakeSupercell(@, ma, mb)]

----------------------------------------------------------------------------
mult_a == mult[1]
mult_b == mult[2]

Init ==
    /\ pc = "load"
    /\ thickness \in Thicknesses
    /\ width \in RequestedLengths
    /\ depth \in RequestedLengths
    /\ rhombohedral_miller \in MillerIndices
    /\ padding \in Paddings
    /\ fe2o3 = None
    /\ mil = Unset
    /\ slabgen = None
    /\ slabs = <<>>
    /\ native = <<>>
    /\ mult = Unset
    /\ i = 0
    /\ ret = None
    /\ disk = {}
    /\ error = "none"
    /\ log = <<>>

Fail(e) ==
    /\ pc' = "failed"
    /\ error' = e

\* line 25
Load ==
    /\ pc = "load"
    /\ fe2o3' = "Fe2O3_orth.cif"
    /\ log' = Append(log, <<"from_file">>)
    /\ pc' = "translate"
    /\ UNCHANGED <<thickness, width, depth, rhombohedral_miller, padding, mil,
                   slabgen, slabs, native, mult, i, ret, disk, error>>

\* line 25, the file cannot be read
LoadFails ==
    /\ pc = "load"
    /\ Fail("OSError")
    /\ UNCHANGED <<thickness, width, depth, rhombohedral_miller, padding, fe2o3,
                   mil, slabgen, slabs, native, mult, i, ret, disk, log>>

\* lines 64-76
TranslateIndex ==
    /\ pc = "translate"
    /\ mil' = Translate(rhombohedral_miller)
    /\ log' = Append(log, <<"translate">>)
    /\ pc' = "generate"
    /\ UNCHANGED <<thickness, width, depth, rhombohedral_miller, padding, fe2o3,
                   slabgen, slabs, native, mult, i, ret, disk, error>>

\* lines 79-87; reading the unbound local mil raises before the engine is called
Generate ==
    /\ pc = "generate"
    /\ IF mil = Unset
       THEN /\ Fail("UnboundLocalError")
            /\ UNCHANGED <<slabgen, slabs, native, log>>
       ELSE /\ slabgen' = [structure |-> fe2o3, miller_index |-> mil,
                           min_slab_size |-> thickness,
                           min_vacuum_size |-> padding, center_slab |-> TRUE,
                           lll_reduce |-> TRUE, primitive |-> FALSE]
            /\ \E result \in SeqsUpTo(SlabShapes, MaxSlabs) :
                  /\ slabs' = result
                  /\ native' = result
            /\ log' = Append(log, <<"get_slabs">>)
            /\ pc' = "mults"
            /\ UNCHANGED error
    /\ UNCHANGED <<thickness, width, depth, rhombohedral_miller, padding, fe2o3,
                   mil, mult, i, ret, disk>>

\* lines 90-91; slabs[0] of an empty list raises IndexError
ComputeMults ==
    /\ pc = "mults"
    /\ IF Len(slabs) = 0
       THEN /\ Fail("IndexError")
            /\ UNCHANGED mult
       ELSE /\ mult' = <<Round(width, slabs[1].a), Round(depth, slabs[1].b)>>
            /\ pc' = "scale"
            /\ UNCHANGED error
    /\ UNCHANGED <<thickness, width, depth, rhombohedral_miller, padding, fe2o3,
                   mil, slabgen, slabs, native, i, ret, disk, log>>

\* line 93: zip(slabs, arange(0, len(slabs))) is exhausted
LoopEnd ==
    /\ pc = "scale"
    /\ i = Len(slabs)
    /\ pc' = "done"
    /\ UNCHANGED <<thickness, width, depth, rhombohedral_miller, padding, fe2o3,
                   mil, slabgen, slabs, native, mult, i, ret, disk,
                   error, log>>

\* line 94
Scale ==
    /\ pc = "scale"
    /\ i < Len(slabs)
    /\ mult_a > 0 /\ mult_b > 0
    /\ slabs' = ScaleAt(slabs, i + 1, mult_a, mult_b)
    /\ log' = Append(log, <<"make_supercell", i>>)
    /\ pc' = "orth"
    /\ UNCHANGED <<thickness, width, depth, rhombohedral_miller, padding, fe2o3,
                   mil, slabgen, native, mult, i, ret, disk, error>>

\* line 94 with a zero multiplier: the scaling matrix is singular; the library
\* either raises or builds a cell of zero length
ScaleSingular ==
    /\ pc = "scale"
    /\ i < Len(slabs)
    /\ mult_a = 0 \/ mult_b = 0
    /\ \/ /\ Fail("LinAlgError")
          /\ UNCHANGED <<slabs, log>>
       \/ /\ slabs' = ScaleAt(slabs, i + 1, mult_a, mult_b)
          /\ log' = Append(log, <<"make_supercell", i>>)
          /\ pc' = "orth"
          /\ UNCHANGED error
    /\ UNCHANGED <<thickness, width, depth, rhombohedral_miller, padding, fe2o3,
                   mil, slabgen, native, mult, i, ret, disk>>

\* line 95: the returned slab is not bound to anything
Orthogonalize ==
    /\ pc = "orth"
    /\ ret' = GetOrthogonalCSlab(slabs[i + 1])
    /\ log' = Append(log, <<"get_orthogonal_c_slab", i>>)
    /\ pc' = "write"
    /\ UNCHANGED <<thickness, width, depth, rhombohedral_miller, padding, fe2o3,
                   mil, slabgen, slabs, native, mult, i, disk, error>>

\* line 96, then the next iteration of line 93
Write ==
    /\ pc = "write"
    /\ disk' = WriteFile(disk, FileName(rhombohedral_miller, mil, i),
                         slabs[i + 1])
    /\ log' = Append(log, <<"to", i>>)
    /\ i' = i + 1
    /\ pc' = "scale"
    /\ UNCHANGED <<thickness, width, depth, rhombohedral_miller, padding, fe2o3,
                   mil, slabgen, slabs, native, mult, ret, error>>

\* line 96, the output path cannot be written
WriteFails ==
    /\ pc = "write"
    /\ Fail("OSError")
    /\ UNCHANGED <<thickness, width, depth, rhombohedral_miller, padding, fe2o3,
                   mil, slabgen, slabs, native, mult, i, ret, disk,
                   log>>

Next ==
    \/ Load
    \/ LoadFails
    \/ TranslateIndex
    \/ Generate
    \/ ComputeMults
    \/ LoopEnd
    \/ Scale
    \/ ScaleSingular
    \/ Orthogonalize
    \/ Write
    \/ WriteFails

Spec == Init /\ [][Next]_vars


----------------------------------------------------------------------------
(* Properties *)

Finished == pc \in {"done", "failed"}
Translated == fe2o3 # None /\ pc \notin {"load", "translate"}
MultsComputed == mult # Unset
EngineCalled == \E n \in DOMAIN log : log[n] = <<"get_slabs">>
Abs(x) == IF x < 0 THEN -x ELSE x
Members(list) == {list[n] : n \in DOMAIN list}
Neg(m) == <<-m[1], -m[2], -m[3]>>
Families == <<plane_100, plane_001, plane_110, plane_012>>
Supported(m) == \E n \in DOMAIN Families : In(m, Families[n])

\* C1: once the index is translated, every member of the (100) family has
\* mil = (1,1,0), every member of the (001) family mil = (0,0,1), every member
\* of the (110) family mil = (1,0,0) and every member of the (012) family
\* mil = (0,2,2); the families have 6, 2, 6 and 6 members.
C1_FamiliesMapToCanonical ==
    /\ Cardinality(Members(plane_100)) = 6
    /\ Cardinality(Members(plane_001)) = 2
    /\ Cardinality(Members(plane_110)) = 6
    /\ Cardinality(Members(plane_012)) = 6
    /\ Translated =>
        /\ rhombohedral_miller \in
               {<<1,0,0>>, <<0,1,0>>, <<1,-1,0>>,
                <<-1,0,0>>, <<0,-1,0>>, <<-1,1,0>>} => mil = <<1,1,0>>
        /\ In(rhombohedral_miller, plane_100) => mil = <<1,1,0>>
        /\ In(rhombohedral_miller, plane_001) => mil = <<0,0,1>>
        /\ In(rhombohedral_miller, plane_110) => mil = <<1,0,0>>
        /\ In(rhombohedral_miller, plane_012) => mil = <<0,2,2>>

C1_Witness ==
    /\ Translated
    /\ rhombohedral_miller = <<2,-1,0>>
    /\ mil = <<1,0,0>>

\* C2: an invocation with an index in none of the four families ends in a
\* failure that names the index as unsupported, with the engine never called
\* and no file written.
C2_UnsupportedIndexFailsExplicitly ==
    (fe2o3 # None /\ Finished /\ ~Supported(rhombohedral_miller)) =>
        /\ pc = "failed"
        /\ error = "UnsupportedMillerIndex"
        /\ ~EngineCalled
        /\ disk = {}

\* C3: the two multipliers handed to make_supercell are both at least 1.
C3_MultipliersAtLeastOne ==
    MultsComputed => mult_a >= 1 /\ mult_b >= 1

\* C4: the slab written for candidate n was replicated round(width / a_n) by
\* round(depth / b_n) times, a_n and b_n being that candidate's own native
\* in-plane lengths.
C4_MultipliersFromOwnLattice ==
    \A f \in disk :
        LET own == native[f.name[4] + 1]
        IN  /\ f.content.reps_a = Round(width, own.a)
            /\ f.content.reps_b = Round(depth, own.b)
            /\ f.content.a = Round(width, own.a) * own.a
            /\ f.content.b = Round(depth, own.b) * own.b

\* C5: each multiplier is an integer nearest to requested / native length
\* (of the first candidate, the one the code divides by); a = 5.0, b = 4.0,
\* width = 21.0, depth = 7.5 give 4 and 2.
C5_MultiplierIsNearestInteger ==
    MultsComputed =>
        /\ mult_a \in Nat /\ mult_b \in Nat
        /\ 2 * Abs(width - mult_a * native[1].a) <= native[1].a
        /\ 2 * Abs(depth - mult_b * native[1].b) <= native[1].b
        /\ (native[1].a = 10 /\ width = 42) => mult_a = 4
        /\ (native[1].b = 8 /\ depth = 15) => mult_b = 2

C5_Witness ==
    /\ MultsComputed
    /\ native[1].a = 10 /\ native[1].b = 8
    /\ width = 42 /\ depth = 15
    /\ mult_a = 4 /\ mult_b = 2

\* C6: every structure written to a file has its c vector orthogonal to the
\* in-plane vectors.
C6_WrittenSlabsAreOrthogonal ==
    \A f \in disk : f.content.tilt = 0

\* C7: when the engine returns no candidate, the invocation ends with the
\* failure "no valid slab for requested configuration".
C7_EmptyResultIsReported ==
    (EngineCalled /\ native = <<>> /\ Finished) =>
        /\ pc = "failed"
        /\ error = "NoValidSlab"

\* C8: after an invocation that completes with n candidates the files written
\* are exactly slab_<M>_<n>.cif for n = 0 .. n-1, M the index the caller gave,
\* pairwise distinct, the n-th holding the n-th candidate.
C8_OneFilePerCandidate ==
    pc = "done" =>
        /\ Cardinality(disk) = Len(native)
        /\ {f.name : f \in disk} =
               {<<"slab_", rhombohedral_miller, "_", n, ".cif">> :
                    n \in 0 .. Len(native) - 1}
        /\ \A f \in disk : f.content = slabs[f.name[4] + 1]

C8_Witness ==
    /\ pc = "done"
    /\ Len(native) = MaxSlabs
    /\ mil # rhombohedral_miller
    /\ Cardinality(disk) = MaxSlabs

\* the n-th call of an invocation that runs the pipeline in order
Expected(n) ==
    IF n = 1 THEN <<"from_file">>
    ELSE IF n = 2 THEN <<"translate">>
    ELSE IF n = 3 THEN <<"get_slabs">>
    ELSE LET slab == (n - 4) \div 3
             step == (n - 4) % 3
         IN  IF step = 0 THEN <<"make_supercell", slab>>
             ELSE IF step = 1 THEN <<"get_orthogonal_c_slab", slab>>
             ELSE <<"to", slab>>

\* C9: the calls happen in the order load, translate, one engine call, then
\* for candidate 0, 1, ... in turn scale, orthogonalize, write; a candidate
\* whose turn has not come is as the engine returned it, and a candidate
\* already written is as it was written.
C9_StrictlySequential ==
    /\ \A n \in 1 .. Len(log) : log[n] = Expected(n)
    /\ Len(log) <= 3 + 3 * Len(native)
    /\ \A j \in 1 .. Len(slabs) :
          /\ j > i + 1 => slabs[j] = native[j]
          /\ (j = i + 1 /\ pc = "scale") => slabs[j] = native[j]
          /\ j <= i => [name |-> <<"slab_", rhombohedral_miller, "_", j - 1,
                                   ".cif">>,
                        content |-> slabs[j]] \in disk

C9_Witness ==
    /\ pc = "done"
    /\ Len(native) = MaxSlabs
    /\ Len(log) = 3 + 3 * MaxSlabs
    /\ \A j \in 1 .. Len(slabs) : slabs[j] # native[j]

\* C10: the opposite face of a supported index is supported and translates to
\* the same orthorhombic index, and no index is in two families.
C10_FamiliesClosedUnderNegation ==
    /\ (Translated /\ mil # Unset) =>
           /\ \E n \in DOMAIN Families :
                 /\ In(rhombohedral_miller, Families[n])
                 /\ In(Neg(rhombohedral_miller), Families[n])
           /\ Translate(Neg(rhombohedral_miller)) = mil
    /\ \A m \in DOMAIN Families, n \in DOMAIN Families :
           m # n => Members(Families[m]) \cap Members(Families[n]) = {}

=============================================================================
